---- MODULE Spec2Model ----
(***************************************************************************)
(* The streaming multi-verifier result pipeline of                         *)
(* frontend_demo/src/components/VerificationDashboard.tsx: the component   *)
(* state, the startVerification read loop with its incremental object      *)
(* extractor, the auto-start and auto-save effects and the Re-verify       *)
(* button.                                                                 *)
(*                                                                         *)
(* Text is a sequence of one-character strings.  A response body is a      *)
(* sequence of bytes; the bytes "u1" "u2" are the lead and continuation    *)
(* byte of one two-byte character, every other byte is an ASCII character. *)
(***************************************************************************)
EXTENDS Integers, Sequences, FiniteSets, TLC

VARIABLES
  results,               \* useState<VerificationResult[]>([])
  isStreaming,           \* useState(false)
  error,                 \* useState<string | null>(null)
  hasStartedRef,         \* useRef(false)
  autoSaveStatus,        \* useState<'idle'|'saving'|'saved'|'error'>('idle')
  autoSaveTriggeredRef,  \* useRef(false)
  domDisabled,           \* the committed disabled attribute of the Re-verify button
  commitLag,             \* whether a batch made outside a click commits in a later step
  runs,                  \* the invocations of startVerification and their locals
  nRuns,                 \* how many invocations passed the guard
  saves,                 \* the autoSaveResults requests in flight, by the run that was current
  resultRun,             \* for each element of results, the invocation that appended it
  savesThisRun,          \* autoSaveResults calls since the last start
  savedPayload,          \* verification_results of the last of them
  autoCalls,             \* startVerification(false) calls so far
  lab                    \* the state of DynamicInferenceLab and its requests in flight

vars == <<results, isStreaming, error, hasStartedRef, autoSaveStatus,
          autoSaveTriggeredRef, domDisabled, commitLag, runs, nRuns, saves,
          resultRun, savesThisRun, savedPayload, autoCalls, lab>>

(* The state of VerificationDashboard. *)
dashVars == <<results, isStreaming, error, hasStartedRef, autoSaveStatus,
              autoSaveTriggeredRef, domDisabled, commitLag, runs, nRuns, saves,
              resultRun, savesThisRun, savedPayload, autoCalls>>

----------------------------------------------------------------------------
(* Bounds *)

MaxRuns == 2
MaxAutoCalls == 2
MaxObjs == 2
MaxSaves == 3
MaxVerifiers == 3
PanelSize == 200
MaxDissent == 2
PanelChunk == 8
MaxCalls == 3
MaxRows == 2

----------------------------------------------------------------------------
(* Characters *)

LBrace == "{"
RBrace == "}"
Quote == "\""
BSlash == "\\"
NULL == "null"
----------------------------------------------------------------------------
(* TextDecoder.decode(value, {stream: true}): an incomplete multi-byte     *)
(* sequence at the end of a chunk is carried to the next call; a malformed *)
(* sequence decodes to the replacement character.                          *)

RECURSIVE DecodeBytes(_, _)
DecodeBytes(bytes, acc) ==
  IF bytes = <<>> THEN [text |-> acc, carry |-> <<>>]
  ELSE IF Head(bytes) = "u1"
    THEN IF Len(bytes) = 1 THEN [text |-> acc, carry |-> <<"u1">>]
         ELSE IF bytes[2] = "u2"
           THEN DecodeBytes(SubSeq(bytes, 3, Len(bytes)), Append(acc, "e"))
           ELSE DecodeBytes(Tail(bytes), Append(acc, "?"))
  ELSE IF Head(bytes) = "u2" THEN DecodeBytes(Tail(bytes), Append(acc, "?"))
  ELSE DecodeBytes(Tail(bytes), Append(acc, Head(bytes)))

Decode(carry, chunk) == DecodeBytes(carry \o chunk, <<>>)

----------------------------------------------------------------------------
(* JSON.parse of a candidate: a SyntaxError unless the text is one         *)
(* well-formed object; the value keeps the members in order with the       *)
(* escape sequences of its strings resolved.                               *)

SyntaxError == <<"SyntaxError">>

RECURSIVE ParseFrom(_, _, _, _, _)
ParseFrom(s, i, d, inStr, acc) ==
  IF i > Len(s) THEN IF d = 0 /\ ~inStr /\ acc # <<>> THEN acc ELSE SyntaxError
  ELSE LET c == s[i] IN
    IF inStr THEN
      IF c = BSlash THEN
        IF i = Len(s) THEN SyntaxError
        ELSE IF s[i + 1] = Quote THEN ParseFrom(s, i + 2, d, TRUE, Append(acc, "Q"))
        ELSE IF s[i + 1] = BSlash THEN ParseFrom(s, i + 2, d, TRUE, Append(acc, "B"))
        ELSE IF s[i + 1] = "a" THEN ParseFrom(s, i + 2, d, TRUE, Append(acc, "A"))
        ELSE SyntaxError
      ELSE IF c = Quote THEN ParseFrom(s, i + 1, d, FALSE, Append(acc, c))
      ELSE ParseFrom(s, i + 1, d, TRUE, Append(acc, c))
    ELSE IF d = 0 /\ (i > 1 \/ c # LBrace) THEN SyntaxError
    ELSE IF c = LBrace THEN ParseFrom(s, i + 1, d + 1, FALSE, Append(acc, c))
    ELSE IF c = RBrace THEN ParseFrom(s, i + 1, d - 1, FALSE, Append(acc, c))
    ELSE IF c = Quote THEN ParseFrom(s, i + 1, d, TRUE, Append(acc, c))
    ELSE IF c \in {"a", "P", "F", "E", ",", "t", "f", "o"}
      THEN ParseFrom(s, i + 1, d, FALSE, Append(acc, c))
    ELSE SyntaxError

JSONParse(jsonStr) == ParseFrom(jsonStr, 1, 0, FALSE, <<>>)

----------------------------------------------------------------------------
(* CriteriaHeatmap: the cell of a result for a criterion. *)

criteria ==
  <<"lever_correctly_implemented", "intensity_correctly_achieved",
    "uncertainty_successfully_induced", "implementation_quality_sound",
    "answer_constraint_satisfied", "ground_truth_alignment",
    "refusal_class_correct">>

(* r.verification_response: the seven members, <<>> when there is none. *)
verification_response(result) ==
  IF Len(result) = Len(criteria) + 2 THEN SubSeq(result, 2, Len(criteria) + 1)
  ELSE <<>>

(* v?.[c.key] *)
CriterionValue(v, c) ==
  IF v = <<>> THEN "undefined"
  ELSE IF v[c] = "t" THEN "true"
  ELSE IF v[c] = "f" THEN "false"
  ELSE "undefined"

(* Mutant: pending decided by the missing response alone. *)
HeatmapCellByResponse(result, c) ==
  LET v == verification_response(result)
  IN IF v = <<>> THEN "pending"
     ELSE IF CriterionValue(v, c) = "true" THEN "pass"
     ELSE "fail"

(* The class of the cell: pending when v?.[c.key] === undefined, else *)
(* pass or fail by v[c.key].                                          *)
HeatmapCell(result, c) ==
  LET v == verification_response(result)
  IN IF CriterionValue(v, c) = "undefined" THEN "pending"
     ELSE IF CriterionValue(v, c) = "true" THEN "pass"
     ELSE "fail"

----------------------------------------------------------------------------
(* The scan of the read loop (the for loop over buffer).  st holds the     *)
(* locals buffer, depth, inString, escapeNext, objectStart (0-based, as in *)
(* the source) and out, the values handed to setResults in order.  The     *)
(* scan starts at index 0 of the buffer on every chunk.                    *)

RECURSIVE Scan(_, _)
Scan(st, i) ==
  IF i >= Len(st.buffer) THEN st
  ELSE LET char == st.buffer[i + 1] IN
    IF st.escapeNext THEN Scan([st EXCEPT !.escapeNext = FALSE], i + 1)
    ELSE IF char = BSlash /\ st.inString THEN Scan([st EXCEPT !.escapeNext = TRUE], i + 1)
    ELSE IF char = Quote /\ ~st.escapeNext
      THEN Scan([st EXCEPT !.inString = ~st.inString], i + 1)
    ELSE IF st.inString THEN Scan(st, i + 1)
    ELSE IF char = LBrace
      THEN Scan([st EXCEPT !.objectStart = IF st.depth = 0 THEN i ELSE st.objectStart,
                           !.depth = st.depth + 1], i + 1)
    ELSE IF char = RBrace
      THEN IF st.depth - 1 = 0 /\ st.objectStart # -1
        THEN LET jsonStr == SubSeq(st.buffer, st.objectStart + 1, i + 1)
                 result == JSONParse(jsonStr)
             IN Scan([st EXCEPT !.depth = 0,
                                !.out = IF result = SyntaxError THEN st.out
                                        ELSE Append(st.out, result),
                                !.buffer = SubSeq(st.buffer, i + 2, Len(st.buffer)),
                                !.objectStart = -1], 0)
        ELSE Scan([st EXCEPT !.depth = st.depth - 1], i + 1)
    ELSE Scan(st, i + 1)

(* The locals declared before the while loop. *)
InitLocals ==
  [buffer |-> <<>>, depth |-> 0, inString |-> FALSE, escapeNext |-> FALSE,
   objectStart |-> -1, carry |-> <<>>, out |-> <<>>]

(* One turn of the while loop on a chunk: decode, append to buffer, scan. *)
ProcessChunk(loc, chunk) ==
  LET dec == Decode(loc.carry, chunk)
  IN Scan([loc EXCEPT !.buffer = loc.buffer \o dec.text, !.carry = dec.carry,
                      !.out = <<>>], 0)

(* The values appended when the chunks are fed in order. *)
RECURSIVE FeedFrom(_, _)
FeedFrom(loc, chunks) ==
  IF chunks = <<>> THEN <<>>
  ELSE LET st == ProcessChunk(loc, Head(chunks))
       IN st.out \o FeedFrom(st, Tail(chunks))

Feed(chunks) == FeedFrom(InitLocals, chunks)

----------------------------------------------------------------------------
(* Response bodies of POST /verify: an array of serialized result objects, *)
(* "[obj,obj]".  {P} and {F} stand for an object whose verdict is PASS or  *)
(* FAIL, a for any other member text.                                      *)

SessionObjects == { <<"{", "P", "}">>, <<"{", "F", "}">> }

ExtractObjects ==
  { <<"{", "P", "}">>,
    <<"{", Quote, "}", Quote, "}">>,
    <<"{", Quote, BSlash, Quote, Quote, "F", "}">>,
    <<"{", "a", "{", "F", "}", "}">>,
    <<"{", Quote, "u1", "u2", Quote, "}">>,
    <<"{", Quote, "{", Quote, "}">>,
    <<"{", Quote, BSlash, BSlash, Quote, "}">> }

(* Bodies with a candidate that is no JSON: x stands for member text that *)
(* JSON.parse rejects.                                                    *)
DiscardObjects == { <<"{", "P", "}">>, <<"{", "F", "}">>, <<"{", "x", "}">> }

(* Bodies for the statistics: {a} is a result without verification_response, *)
(* {E} one whose verification_result is a string other than PASS and FAIL.   *)
VerdictObjects ==
  { <<"{", "P", "}">>, <<"{", "F", "}">>, <<"{", "a", "}">>, <<"{", "E", "}">> }

(* Bodies for the criteria: a result with a verification_response is   *)
(* "{" followed by one letter for each of the seven criteria and "}":   *)
(* t for true, f for false, o when the response has no such member.     *)
HeatmapObjects ==
  { <<"{", "a", "}">>,
    <<"{", "t", "t", "t", "t", "t", "t", "t", "}">>,
    <<"{", "f", "t", "f", "t", "f", "t", "f", "}">>,
    <<"{", "t", "o", "t", "f", "t", "t", "o", "}">> }

RECURSIVE Join(_)
Join(objs) ==
  IF objs = <<>> THEN <<>>
  ELSE IF Len(objs) = 1 THEN Head(objs)
  ELSE Head(objs) \o <<",">> \o Join(Tail(objs))

ObjectLists(pool) == UNION { [1..n -> pool] : n \in 0..MaxObjs }

Serialize(objs) == <<"[">> \o Join(objs) \o <<"]">>

Streams(pool) == { Serialize(objs) : objs \in ObjectLists(pool) }

(* The body of objs with a closing brace too many right after its k-th *)
(* object (after the opening bracket when k = 0).                      *)
StrayBody(objs, k) ==
  LET text == Serialize(objs)
      at == 1 + Len(Join(SubSeq(objs, 1, k)))
  IN SubSeq(text, 1, at) \o <<RBrace>> \o SubSeq(text, at + 1, Len(text))

StrayBodies ==
  { StrayBody(objs, k) : <<objs, k>> \in
      { <<o, j>> \in (ObjectLists(SessionObjects) \ {<<>>}) \X (0..MaxObjs) :
          j <= Len(o) } }

VerifierLists == UNION { [1..n -> VerdictObjects] : n \in 0..MaxVerifiers }

VerifierStreams == { Serialize(objs) : objs \in VerifierLists }

(* The body of a large panel, p PASS results followed by f FAIL results: *)
(* "[" at index 1, then "{P}" or "{F}" with a comma between, then "]".   *)
PanelBody(p, f) ==
  [i \in 1..(4 * (p + f) + 1) |->
     IF i = 1 THEN "["
     ELSE IF i = 4 * (p + f) + 1 THEN "]"
     ELSE IF (i - 2) % 4 = 0 THEN LBrace
     ELSE IF (i - 2) % 4 = 1 THEN (IF (i - 2) \div 4 < p THEN "P" ELSE "F")
     ELSE IF (i - 2) % 4 = 2 THEN RBrace
     ELSE ","]

PanelStreams ==
  { PanelBody(p, f) : p \in (PanelSize - MaxDissent)..PanelSize, f \in 0..MaxDissent }

HeatmapLists == UNION { [1..n -> HeatmapObjects] : n \in 0..MaxRows }

HeatmapStreams == { Serialize(objs) : objs \in HeatmapLists }

----------------------------------------------------------------------------
(* AgreementMatrix: the counts and the agreement rate of a result list. *)

PassResult == <<"{", "P", "}">>
FailResult == <<"{", "F", "}">>

(* r.verification_response?.verification_result *)
Verdict(result) ==
  IF result = PassResult THEN "PASS"
  ELSE IF result = FailResult THEN "FAIL"
  ELSE IF result = <<"{", "E", "}">> THEN "ERROR"
  ELSE "undefined"

Verdicts(rs) == [k \in 1..Len(rs) |-> Verdict(rs[k])]

CountOf(verdicts, v) == Cardinality({ k \in 1..Len(verdicts) : verdicts[k] = v })

passCount(rs) == CountOf(Verdicts(rs), "PASS")
failCount(rs) == CountOf(Verdicts(rs), "FAIL")
total(rs) == passCount(rs) + failCount(rs)

MathMax(a, b) == IF a >= b THEN a ELSE b

(* Mutant: the quotient cut off instead of rounded. *)
MathRoundDown(num, den) == num \div den

(* Math.round of the quotient num / den: the nearest integer, a half *)
(* going up.  The quotient is taken exactly; the floating-point one  *)
(* rounds to the same integer for every list the bodies below give.  *)
MathRound(num, den) == (2 * num + den) \div (2 * den)

(* The value of agreementRate when it is null. *)
NoRate == -1

agreementRate(rs) ==
  IF total(rs) > 1
    THEN MathRound(MathMax(passCount(rs), failCount(rs)) * 100, total(rs))
    ELSE NoRate

(* The disagreement alert: new Set(verdicts.filter(Boolean)).size > 1, *)
(* rendered when results.length > 1 && !isStreaming.                   *)
hasDisagreement(rs) ==
  Cardinality({ Verdicts(rs)[k] : k \in 1..Len(rs) } \ {"undefined"}) > 1

AlertShown == Len(results) > 1 /\ ~isStreaming /\ hasDisagreement(results)

----------------------------------------------------------------------------
(* DynamicInferenceLab.  A text is a sequence of characters. *)

Texts == { <<>>, <<" ">>, <<"q">> }

CUSTOM_PROMPT_ID == "custom_prompt"

(* The presets: id and description. *)
PRESETS ==
  { [id |-> "refusalbench_baseline", description |-> <<"C", "a", "l", "l">>],
    [id |-> CUSTOM_PROMPT_ID, description |-> <<>>] }

RECURSIVE trimStart(_)
trimStart(s) == IF s # <<>> /\ Head(s) = " " THEN trimStart(Tail(s)) ELSE s

RECURSIVE trimEnd(_)
trimEnd(s) ==
  IF s # <<>> /\ s[Len(s)] = " " THEN trimEnd(SubSeq(s, 1, Len(s) - 1)) ELSE s

(* String.prototype.trim *)
trim(s) == trimEnd(trimStart(s))

(* No result (null) and no request in flight. *)
NoResult == 0

(* The state after the first render, without initialQuery and       *)
(* initialContext.  inference is the request of runModel in flight, *)
(* sent the number of requests so far, a result is named by the     *)
(* request that returned it; saveOf is the result of the            *)
(* saveChoice request in flight, saved the results whose request    *)
(* succeeded, calls the number of runModel calls.                   *)
InitLab ==
  [queryText |-> <<>>, contextText |-> <<>>, workflowDesc |-> <<>>,
   activePreset |-> NULL, customPrompt |-> <<>>, customPromptError |-> "",
   queryError |-> "", contextError |-> "", workflowError |-> "",
   result |-> NoResult, loading |-> FALSE, error |-> NULL,
   saving |-> FALSE, saveStatus |-> "idle",
   inference |-> NoResult, sent |-> 0, saveOf |-> NoResult, saved |-> {}, calls |-> 0]

isCustomPromptMode(l) == l.activePreset = CUSTOM_PROMPT_ID

(* onChange of the query and of the context textarea. *)
SetQueryText ==
  /\ \E v \in Texts : lab' = [lab EXCEPT !.queryText = v]
  /\ UNCHANGED dashVars

SetContextText ==
  /\ \E v \in Texts : lab' = [lab EXCEPT !.contextText = v]
  /\ UNCHANGED dashVars

(* onChange of the custom prompt textarea, rendered in custom prompt mode. *)
SetCustomPrompt ==
  /\ isCustomPromptMode(lab)
  /\ \E v \in Texts : lab' = [lab EXCEPT !.customPrompt = v, !.customPromptError = ""]
  /\ UNCHANGED dashVars

(* onChange of the workflow textarea, rendered outside custom prompt mode. *)
SetWorkflowDesc ==
  /\ ~isCustomPromptMode(lab)
  /\ \E v \in Texts :
       lab' = [lab EXCEPT !.workflowDesc = v, !.activePreset = NULL, !.workflowError = ""]
  /\ UNCHANGED dashVars

handlePreset ==
  /\ \E preset \in PRESETS :
       lab' = IF preset.id = CUSTOM_PROMPT_ID
                THEN [lab EXCEPT !.activePreset = preset.id, !.workflowError = "",
                                 !.customPromptError = "", !.workflowDesc = <<>>]
                ELSE [lab EXCEPT !.activePreset = preset.id, !.workflowError = "",
                                 !.customPromptError = "",
                                 !.workflowDesc = preset.description,
                                 !.customPrompt = <<>>]
  /\ UNCHANGED dashVars

(* Mutant: the context is not checked. *)
validateNoContext(l) ==
  [valid |->
     /\ trim(l.queryText) # <<>>
     /\ IF isCustomPromptMode(l) THEN trim(l.customPrompt) # <<>>
                                 ELSE trim(l.workflowDesc) # <<>>,
   queryError |-> IF trim(l.queryText) = <<>> THEN "Perturbed query is required." ELSE "",
   contextError |-> "",
   customPromptError |->
     IF isCustomPromptMode(l) /\ trim(l.customPrompt) = <<>>
       THEN "Custom prompt template is required." ELSE "",
   workflowError |->
     IF ~isCustomPromptMode(l) /\ trim(l.workflowDesc) = <<>>
       THEN "Workflow description is required." ELSE ""]

(* validate: whether the inputs are usable, and the four messages it sets. *)
validate(l) ==
  [valid |->
     /\ trim(l.queryText) # <<>>
     /\ trim(l.contextText) # <<>>
     /\ IF isCustomPromptMode(l) THEN trim(l.customPrompt) # <<>>
                                 ELSE trim(l.workflowDesc) # <<>>,
   queryError |-> IF trim(l.queryText) = <<>> THEN "Perturbed query is required." ELSE "",
   contextError |->
     IF trim(l.contextText) = <<>> THEN "Perturbed context is required." ELSE "",
   customPromptError |->
     IF isCustomPromptMode(l) /\ trim(l.customPrompt) = <<>>
       THEN "Custom prompt template is required." ELSE "",
   workflowError |->
     IF ~isCustomPromptMode(l) /\ trim(l.workflowDesc) = <<>>
       THEN "Workflow description is required." ELSE ""]

(* The click on Run Model (disabled while loading): validate, then the *)
(* four state updates and the request.                                 *)
runModel ==
  /\ ~lab.loading
  /\ lab.calls < MaxCalls
  /\ LET v == validate(lab)
         checked == [lab EXCEPT !.queryError = v.queryError,
                                !.contextError = v.contextError,
                                !.customPromptError = v.customPromptError,
                                !.workflowError = v.workflowError,
                                !.calls = @ + 1]
     IN lab' = IF ~v.valid THEN checked
               ELSE [checked EXCEPT !.loading = TRUE, !.error = NULL, !.result = NoResult,
                                    !.saveStatus = "idle",
                                    !.inference = lab.sent + 1, !.sent = @ + 1]
  /\ UNCHANGED dashVars

(* The response of /inference_lab is ok: setResult(data), then finally. *)
InferenceOk ==
  /\ lab.inference # NoResult
  /\ lab' = [lab EXCEPT !.result = lab.inference, !.loading = FALSE, !.inference = NoResult]
  /\ UNCHANGED dashVars

(* fetch rejects or the response is not ok: setError, then finally. *)
InferenceFail ==
  /\ lab.inference # NoResult
  /\ \E msg \in {"Failed to fetch", "Inference failed: 500"} :
       lab' = [lab EXCEPT !.error = msg, !.loading = FALSE, !.inference = NoResult]
  /\ UNCHANGED dashVars

(* The click on Save Eval, rendered with a result and disabled while *)
(* saving or saved.                                                  *)
saveChoice ==
  /\ lab.result # NoResult
  /\ ~(lab.saving \/ lab.saveStatus = "success")
  /\ lab' = [lab EXCEPT !.saving = TRUE, !.saveStatus = "idle", !.saveOf = lab.result]
  /\ UNCHANGED dashVars

(* The response of /inference_lab_choice is ok. *)
SaveChoiceOk ==
  /\ lab.saveOf # NoResult
  /\ lab' = [lab EXCEPT !.saveStatus = "success", !.saving = FALSE,
                        !.saved = @ \cup {lab.saveOf}, !.saveOf = NoResult]
  /\ UNCHANGED dashVars

(* fetch rejects or the response is not ok. *)
SaveChoiceFail ==
  /\ lab.saveOf # NoResult
  /\ lab' = [lab EXCEPT !.saveStatus = "error", !.saving = FALSE, !.saveOf = NoResult]
  /\ UNCHANGED dashVars

NextLab ==
  \/ SetQueryText
  \/ SetContextText
  \/ SetCustomPrompt
  \/ SetWorkflowDesc
  \/ handlePreset
  \/ runModel
  \/ InferenceOk
  \/ InferenceFail
  \/ saveChoice
  \/ SaveChoiceOk
  \/ SaveChoiceFail

----------------------------------------------------------------------------
(* Component state after the first render, nothing started yet. *)

Runs == 1..MaxRuns

NoRun == [pc |-> "none", text |-> <<>>, pos |-> 0, loc |-> InitLocals]
DoneRun == [pc |-> "done", text |-> <<>>, pos |-> 0, loc |-> InitLocals]

InitState ==
  /\ results = <<>>
  /\ isStreaming = FALSE
  /\ error = NULL
  /\ hasStartedRef = FALSE
  /\ autoSaveStatus = "idle"
  /\ autoSaveTriggeredRef = FALSE
  /\ domDisabled = FALSE
  /\ runs = [r \in Runs |-> NoRun]
  /\ nRuns = 0
  /\ saves = {}
  /\ resultRun = <<>>
  /\ savesThisRun = 0
  /\ savedPayload = <<>>
  /\ autoCalls = 0
  /\ lab = InitLab

Init == InitState /\ commitLag = FALSE

InitRender == InitState /\ commitLag = TRUE

(* The committed disabled attribute after a batch of state updates: a     *)
(* batch made in a click handler is flushed before the handler returns.   *)
Commit(discrete) ==
  domDisabled' = IF commitLag /\ ~discrete THEN domDisabled ELSE isStreaming'

(* React commits a pending batch: disabled={isStreaming}. *)
Render ==
  /\ commitLag
  /\ domDisabled # isStreaming
  /\ domDisabled' = isStreaming
  /\ UNCHANGED <<results, isStreaming, error, hasStartedRef, autoSaveStatus,
                 autoSaveTriggeredRef, commitLag, lab, runs, nRuns, saves, resultRun,
                 savesThisRun, savedPayload, autoCalls>>

----------------------------------------------------------------------------
(* startVerification up to its first await: the resets and the fetch. *)

(* Mutant: the start that leaves the auto-save flag as it was. *)
StartBodyKeepsFlag ==
  /\ nRuns < MaxRuns
  /\ hasStartedRef' = TRUE
  /\ results' = <<>>
  /\ resultRun' = <<>>
  /\ isStreaming' = TRUE
  /\ error' = NULL
  /\ autoSaveStatus' = "idle"
  /\ savesThisRun' = 0
  /\ savedPayload' = <<>>
  /\ nRuns' = nRuns + 1
  /\ runs' = [runs EXCEPT ![nRuns + 1] = [NoRun EXCEPT !.pc = "fetch"]]
  /\ UNCHANGED <<saves, commitLag, lab, autoSaveTriggeredRef>>

(* Mutant: the start that leaves the error message as it was. *)
StartBodyKeepsError ==
  /\ nRuns < MaxRuns
  /\ hasStartedRef' = TRUE
  /\ results' = <<>>
  /\ resultRun' = <<>>
  /\ isStreaming' = TRUE
  /\ autoSaveStatus' = "idle"
  /\ autoSaveTriggeredRef' = FALSE
  /\ savesThisRun' = 0
  /\ savedPayload' = <<>>
  /\ nRuns' = nRuns + 1
  /\ runs' = [runs EXCEPT ![nRuns + 1] = [NoRun EXCEPT !.pc = "fetch"]]
  /\ UNCHANGED <<saves, commitLag, lab, error>>

StartBody ==
  /\ nRuns < MaxRuns
  /\ hasStartedRef' = TRUE
  /\ results' = <<>>
  /\ resultRun' = <<>>
  /\ isStreaming' = TRUE
  /\ error' = NULL
  /\ autoSaveStatus' = "idle"
  /\ autoSaveTriggeredRef' = FALSE
  /\ savesThisRun' = 0
  /\ savedPayload' = <<>>
  /\ nRuns' = nRuns + 1
  /\ runs' = [runs EXCEPT ![nRuns + 1] = [NoRun EXCEPT !.pc = "fetch"]]
  /\ UNCHANGED <<saves, commitLag, lab>>

(* Mutant: the guard that does not look at hasStartedRef. *)
StartGuardNoRef(isManualRetry) == TRUE

(* The guard of startVerification. *)
StartGuard(isManualRetry) == ~(~isManualRetry /\ hasStartedRef)

(* useEffect(() => { startVerification(false) }, [startVerification]) *)
AutoStart ==
  /\ autoCalls < MaxAutoCalls
  /\ autoCalls' = autoCalls + 1
  /\ IF StartGuard(FALSE)
       THEN StartBody /\ Commit(FALSE)
       ELSE UNCHANGED <<results, isStreaming, error, hasStartedRef, autoSaveStatus,
                        autoSaveTriggeredRef, domDisabled, commitLag, lab, runs, nRuns,
                        saves, resultRun, savesThisRun, savedPayload>>

(* Mutant: the button without its disabled attribute. *)
ButtonAlwaysEnabled == TRUE

(* The Re-verify button: onClick={() => startVerification(true)}, *)
(* disabled={isStreaming}.                                        *)
ButtonEnabled == ~domDisabled

ManualRestart ==
  /\ ButtonEnabled
  /\ StartGuard(TRUE)
  /\ StartBody
  /\ Commit(TRUE)
  /\ UNCHANGED autoCalls

----------------------------------------------------------------------------
(* The continuations of startVerification after each await.  When the   *)
(* function returns its locals are gone: the run's record is DoneRun.    *)

(* catch (err) { setError(err.message) } finally { setIsStreaming(false) } *)
CatchError(msg) == msg

(* Mutant: the catch without the finally. *)
ThrownNoFinally(r, msg) ==
  /\ error' = CatchError(msg)
  /\ runs' = [runs EXCEPT ![r] = DoneRun]
  /\ UNCHANGED <<results, isStreaming, hasStartedRef, autoSaveStatus,
                 autoSaveTriggeredRef, domDisabled, commitLag, lab, nRuns, saves,
                 resultRun, savesThisRun, savedPayload, autoCalls>>

Thrown(r, msg) ==
  /\ error' = CatchError(msg)
  /\ isStreaming' = FALSE
  /\ runs' = [runs EXCEPT ![r] = DoneRun]
  /\ Commit(FALSE)
  /\ UNCHANGED <<results, hasStartedRef, autoSaveStatus, autoSaveTriggeredRef,
                 commitLag, lab, nRuns, saves, resultRun, savesThisRun, savedPayload, autoCalls>>

(* fetch rejects (network failure). *)
FetchReject(r) ==
  /\ runs[r].pc = "fetch"
  /\ Thrown(r, "Failed to fetch")

(* The responses of POST /verify whose ok is false: the status, the *)
(* status text and the plain-text body.                             *)
NotOkResponses ==
  { [status |-> "500", statusText |-> "Internal Server Error",
     body |-> "verifier backend unavailable"],
    [status |-> "422", statusText |-> "Unprocessable Entity",
     body |-> "perturbation sample is not valid"] }

(* `Verification failed: ${response.status} ${response.statusText}` *)
VerificationFailed(response) ==
  "Verification failed: " \o response.status \o " " \o response.statusText

(* if (!response.ok) throw new Error(`Verification failed: ...`) *)
FetchNotOk(r) ==
  /\ runs[r].pc = "fetch"
  /\ \E response \in NotOkResponses : Thrown(r, VerificationFailed(response))

(* if (!reader) throw new Error('No response body') *)
FetchNoBody(r) ==
  /\ runs[r].pc = "fetch"
  /\ Thrown(r, "No response body")

(* The response is ok and has a body: the locals are set up and the loop *)
(* awaits its first read.  text is what the server is going to send.     *)
FetchOkBody(r, bodies) ==
  /\ runs[r].pc = "fetch"
  /\ \E text \in bodies :
       runs' = [runs EXCEPT ![r] = [pc |-> "read", text |-> text, pos |-> 0,
                                    loc |-> InitLocals]]
  /\ UNCHANGED <<results, isStreaming, error, hasStartedRef, autoSaveStatus,
                 autoSaveTriggeredRef, domDisabled, commitLag, lab, nRuns, saves,
                 resultRun, savesThisRun, savedPayload, autoCalls>>

FetchOk(r, pool) == FetchOkBody(r, Streams(pool))

(* Mutant: the new result put in front of the list. *)
AppendResultsFront(prev, out) == out \o prev

(* setResults(prev => [...prev, result]) for each value of out, in order. *)
AppendResults(prev, out) == prev \o out

(* reader.read() resolves with the next chunk, its length in sizes. *)
ReadChunkOf(r, sizes) ==
  /\ runs[r].pc = "read"
  /\ \E n \in sizes \cap (1..(Len(runs[r].text) - runs[r].pos)) :
       LET chunk == SubSeq(runs[r].text, runs[r].pos + 1, runs[r].pos + n)
           st == ProcessChunk(runs[r].loc, chunk)
       IN /\ results' = AppendResults(results, st.out)
          /\ resultRun' = resultRun \o [k \in 1..Len(st.out) |-> r]
          /\ runs' = [runs EXCEPT ![r].pos = runs[r].pos + n,
                                  ![r].loc = [st EXCEPT !.out = <<>>]]
  /\ UNCHANGED <<isStreaming, error, hasStartedRef, autoSaveStatus,
                 autoSaveTriggeredRef, commitLag, lab, nRuns, saves, savesThisRun, savedPayload,
                 autoCalls>>
  /\ Commit(FALSE)

(* reader.read() resolves with the next chunk, of any length. *)
ReadChunk(r) == ReadChunkOf(r, 1..Len(runs[r].text))

(* Mutant: the loop left by break without the finally. *)
ReadDoneNoFinally(r) ==
  /\ runs[r].pc = "read"
  /\ runs' = [runs EXCEPT ![r] = DoneRun]
  /\ UNCHANGED <<results, isStreaming, error, hasStartedRef, autoSaveStatus,
                 autoSaveTriggeredRef, domDisabled, commitLag, lab, nRuns, saves, resultRun,
                 savesThisRun, savedPayload, autoCalls>>

(* reader.read() resolves with done: break, then finally.  The server may *)
(* close the body before the whole text was sent.                         *)
ReadDone(r) ==
  /\ runs[r].pc = "read"
  /\ isStreaming' = FALSE
  /\ runs' = [runs EXCEPT ![r] = DoneRun]
  /\ Commit(FALSE)
  /\ UNCHANGED <<results, error, hasStartedRef, autoSaveStatus,
                 autoSaveTriggeredRef, commitLag, lab, nRuns, saves, resultRun,
                 savesThisRun, savedPayload, autoCalls>>

(* reader.read() rejects. *)
ReadReject(r) ==
  /\ runs[r].pc = "read"
  /\ Thrown(r, "network error")

----------------------------------------------------------------------------
(* The auto-save effect and the settling of autoSaveResults. *)

(* Mutant: the effect that does not look at autoSaveTriggeredRef. *)
AutoSaveGuardNoFlag == ~isStreaming /\ Len(results) > 0

AutoSaveGuard == ~isStreaming /\ Len(results) > 0 /\ ~autoSaveTriggeredRef

AutoSaveEffect ==
  /\ AutoSaveGuard
  /\ savesThisRun < MaxSaves
  /\ autoSaveTriggeredRef' = TRUE
  /\ autoSaveStatus' = "saving"
  /\ saves' = saves \cup {nRuns}
  /\ savesThisRun' = savesThisRun + 1
  /\ savedPayload' = results
  /\ domDisabled' = isStreaming
  /\ UNCHANGED <<results, isStreaming, error, hasStartedRef, commitLag, lab, runs,
                 nRuns, resultRun, autoCalls>>

(* .then(() => setAutoSaveStatus('saved')) *)
SaveOk(req) ==
  /\ req \in saves
  /\ saves' = saves \ {req}
  /\ autoSaveStatus' = "saved"
  /\ UNCHANGED <<results, isStreaming, error, hasStartedRef, autoSaveTriggeredRef,
                 domDisabled, commitLag, lab, runs, nRuns, resultRun, savesThisRun, savedPayload,
                 autoCalls>>

(* Mutant: the catch that also reports the failure as the session's error. *)
SaveFailSetsError(req) ==
  /\ req \in saves
  /\ saves' = saves \ {req}
  /\ autoSaveStatus' = "error"
  /\ error' = "Auto-save failed: 500"
  /\ UNCHANGED <<results, isStreaming, hasStartedRef, autoSaveTriggeredRef,
                 domDisabled, commitLag, lab, runs, nRuns, resultRun, savesThisRun, savedPayload,
                 autoCalls>>

(* Mutant: the catch that unsets the flag, so that the effect saves again. *)
SaveFailRetries(req) ==
  /\ req \in saves
  /\ saves' = saves \ {req}
  /\ autoSaveStatus' = "error"
  /\ autoSaveTriggeredRef' = FALSE
  /\ UNCHANGED <<results, isStreaming, error, hasStartedRef,
                 domDisabled, commitLag, lab, runs, nRuns, resultRun, savesThisRun, savedPayload,
                 autoCalls>>

(* fetch rejects or the response is not ok: .catch(() => setAutoSaveStatus('error')) *)
SaveFail(req) ==
  /\ req \in saves
  /\ saves' = saves \ {req}
  /\ autoSaveStatus' = "error"
  /\ UNCHANGED <<results, isStreaming, error, hasStartedRef, autoSaveTriggeredRef,
                 domDisabled, commitLag, lab, runs, nRuns, resultRun, savesThisRun, savedPayload,
                 autoCalls>>

----------------------------------------------------------------------------
(* The session's status, derived from hasStartedRef, isStreaming, error. *)

Status ==
  IF isStreaming THEN "Streaming"
  ELSE IF ~hasStartedRef THEN "Idle"
  ELSE IF error # NULL THEN "Failed"
  ELSE "Completed"

----------------------------------------------------------------------------
(* Specifications. *)

Step(pool) ==
  \/ AutoStart
  \/ ManualRestart
  \/ \E r \in Runs : FetchReject(r)
  \/ \E r \in Runs : FetchNotOk(r)
  \/ \E r \in Runs : FetchNoBody(r)
  \/ \E r \in Runs : FetchOk(r, pool)
  \/ \E r \in Runs : ReadChunk(r)
  \/ \E r \in Runs : ReadDone(r)
  \/ \E r \in Runs : ReadReject(r)
  \/ AutoSaveEffect
  \/ \E req \in saves : SaveOk(req)
  \/ \E req \in saves : SaveFail(req)

Next == Step(SessionObjects)

(* Every batch of state updates is committed before the next event is     *)
(* handled: the disabled attribute of the button equals isStreaming.       *)
Spec == Init /\ [][Next]_vars

(* The events that end an invocation: the call fails, the response is *)
(* not usable, the stream reports its end or a read rejects.          *)
EndStep(r) ==
  \/ FetchReject(r)
  \/ FetchNotOk(r)
  \/ FetchNoBody(r)
  \/ ReadDone(r)
  \/ ReadReject(r)

(* Spec with a network on which one of these events eventually happens *)
(* to an invocation that is waiting.                                    *)
SpecLive == Init /\ [][Next]_vars /\ WF_vars(\E r \in Runs : EndStep(r))

NextRender == Step(SessionObjects) \/ Render

(* A batch made outside a click handler (in an effect or after an await)  *)
(* is committed in a later step, and a click may be handled in between.    *)
SpecRender == InitRender /\ [][NextRender]_vars

NextExtract ==
  \/ AutoStart
  \/ \E r \in Runs : FetchOk(r, ExtractObjects)
  \/ \E r \in Runs : ReadChunk(r)
  \/ \E r \in Runs : ReadDone(r)

(* One run over the bodies whose objects carry strings, escapes, nested *)
(* objects and multi-byte characters.                                   *)
SpecExtract == Init /\ [][NextExtract]_vars

NextDiscard ==
  \/ AutoStart
  \/ \E r \in Runs : FetchOk(r, DiscardObjects)
  \/ \E r \in Runs : ReadChunk(r)
  \/ \E r \in Runs : ReadDone(r)
  \/ \E r \in Runs : ReadReject(r)

(* One run over the bodies that may hold a candidate JSON.parse rejects. *)
SpecDiscard == Init /\ [][NextDiscard]_vars

NextStray ==
  \/ AutoStart
  \/ \E r \in Runs : FetchOkBody(r, StrayBodies)
  \/ \E r \in Runs : ReadChunk(r)
  \/ \E r \in Runs : ReadDone(r)

(* One run over the bodies with a closing brace too many between objects. *)
SpecStray == Init /\ [][NextStray]_vars

NextHeatmap ==
  \/ AutoStart
  \/ \E r \in Runs : FetchOkBody(r, HeatmapStreams)
  \/ \E r \in Runs : ReadChunk(r)
  \/ \E r \in Runs : ReadDone(r)

(* One run over the bodies of up to MaxRows results with or without a *)
(* verification_response.                                             *)
SpecHeatmap == Init /\ [][NextHeatmap]_vars

NextVerdicts ==
  \/ AutoStart
  \/ \E r \in Runs : FetchOkBody(r, VerifierStreams)
  \/ \E r \in Runs : ReadChunk(r)
  \/ \E r \in Runs : ReadDone(r)

(* One run over the bodies of up to MaxVerifiers results with a PASS, a *)
(* FAIL or no verdict.                                                  *)
SpecVerdicts == Init /\ [][NextVerdicts]_vars

NextPanel ==
  \/ AutoStart
  \/ \E r \in Runs : FetchOkBody(r, PanelStreams)
  \/ \E r \in Runs :
       LET rest == Len(runs[r].text) - runs[r].pos
       IN ReadChunkOf(r, {IF rest < PanelChunk THEN rest ELSE PanelChunk})
  \/ \E r \in Runs : ReadDone(r)

(* One run over the bodies of a panel of about PanelSize verifiers, the *)
(* body delivered in chunks of PanelChunk characters and a last chunk   *)
(* with the rest.                                                       *)
SpecPanel == Init /\ [][NextPanel]_vars

(* The laboratory page: edits, presets, runs and saves in any order. *)
SpecLab == Init /\ [][NextLab]_vars

----------------------------------------------------------------------------
(* Properties *)

IsPrefix(s, t) == Len(s) <= Len(t) /\ SubSeq(t, 1, Len(s)) = s

ActiveRuns == { r \in Runs : runs[r].pc \in {"fetch", "read"} }

(* A step that is the click on Re-verify: a run starts without an *)
(* automatic start call.                                          *)
IsManualRestartStep == nRuns' = nRuns + 1 /\ autoCalls' = autoCalls

(* C1: when the whole body of a valid stream has been delivered, in     *)
(* whatever chunks, the result list is the one obtained by feeding the  *)
(* whole text as a single chunk.                                        *)
C1_ChunkingIndependent ==
  \A r \in Runs :
    (runs[r].pc = "read" /\ runs[r].pos = Len(runs[r].text))
      => results = Feed(<<runs[r].text>>)

(* C2: every element of the result list was appended by the read loop of *)
(* the most recently started run.                                        *)
C2_NoStaleResults ==
  \A k \in 1..Len(resultRun) : resultRun[k] = nRuns

(* C3: between a start and the next restart autoSaveResults is called at *)
(* most once.                                                            *)
C3_AtMostOneSavePerRun == savesThisRun <= 1

C3_Witness ==
  /\ savesThisRun = 1
  /\ autoSaveStatus = "saved"
  /\ Status = "Completed"
  /\ Len(results) = MaxObjs

(* C4: autoSaveResults has been called for the current run only if the *)
(* run is Completed and its result list is not empty.                  *)
C4_SaveOnlyAfterCompleted ==
  savesThisRun > 0 => (Status = "Completed" /\ Len(results) > 0)

C7_AutoStartIdempotent ==
  [][(autoCalls' # autoCalls /\ hasStartedRef) =>
       UNCHANGED <<results, isStreaming, error, hasStartedRef, autoSaveStatus,
                   autoSaveTriggeredRef, runs, nRuns, saves>>]_vars

C7_Witness ==
  /\ autoCalls = 2
  /\ nRuns = 1
  /\ autoSaveTriggeredRef
  /\ autoSaveStatus = "saved"

(* C8: the click on Re-verify proceeds whenever the button is enabled,  *)
(* and when it awaits the new fetch the list is empty, the error is     *)
(* cleared, SaveState is idle, the auto-save flag is unset and the      *)
(* session is Streaming.                                                *)
C8_ManualRestartResets ==
  /\ []((ButtonEnabled /\ nRuns < MaxRuns) => ENABLED ManualRestart)
  /\ [][IsManualRestartStep =>
          /\ results' = <<>>
          /\ error' = NULL
          /\ autoSaveStatus' = "idle"
          /\ ~autoSaveTriggeredRef'
          /\ Status' = "Streaming"
          /\ runs'[nRuns'].pc = "fetch"]_vars

C8_Witness ==
  /\ nRuns = 2
  /\ runs[2].pc = "fetch"
  /\ autoCalls = 1
  /\ saves = {1}

FetchErrors ==
  {"Failed to fetch", "No response body"}
    \cup { VerificationFailed(response) : response \in NotOkResponses }

(* C9: a run whose call failed, returned a non-success status or had no *)
(* body is Failed, with the message set and an empty result list.       *)
C9_TransportFailure ==
  error \in FetchErrors => (Status = "Failed" /\ results = <<>>)

C9_Witness == error = "No response body" /\ nRuns = 2 /\ ~isStreaming

(* C10: once the run is Failed, or the save of the run has failed, no   *)
(* step other than the click on Re-verify makes the session Streaming,  *)
(* starts a run or issues a save request.                               *)
C10_NoAutomaticRecovery ==
  [][(/\ Status = "Failed" \/ (autoSaveStatus = "error" /\ savesThisRun > 0)
      /\ ~IsManualRestartStep) =>
       /\ isStreaming' => isStreaming
       /\ nRuns' = nRuns
       /\ savesThisRun' = savesThisRun]_vars

(* The values of the objects of a body that deserialize, in order. *)
RECURSIVE ParsedObjects(_)
ParsedObjects(objs) ==
  IF objs = <<>> THEN <<>>
  ELSE LET v == JSONParse(Decode(<<>>, Head(objs)).text)
       IN (IF v = SyntaxError THEN <<>> ELSE <<v>>) \o ParsedObjects(Tail(objs))

HasMalformed(objs) ==
  \E k \in 1..Len(objs) : JSONParse(Decode(<<>>, objs[k]).text) = SyntaxError

(* C11: when the whole of a body holding a candidate that does not       *)
(* deserialize has been delivered, the result list holds the values of   *)
(* the other objects in order and no error is set, and the run then ends *)
(* Completed.                                                            *)
C11_MalformedDiscarded ==
  /\ [](\A r \in Runs : \A objs \in ObjectLists(DiscardObjects) :
          (/\ runs[r].pc = "read"
           /\ runs[r].pos = Len(runs[r].text)
           /\ runs[r].text = Serialize(objs)
           /\ HasMalformed(objs))
            => (results = ParsedObjects(objs) /\ error = NULL))
  /\ [][\A r \in Runs :
          (runs[r].pc = "read" /\ runs'[r].pc = "done" /\ error' = NULL)
            => Status' = "Completed"]_vars

(* The objects of a body whose closing brace is among the first n *)
(* characters after the opening bracket.                          *)
RECURSIVE CompletePrefix(_, _)
CompletePrefix(objs, n) ==
  IF objs = <<>> \/ Len(Head(objs)) > n THEN <<>>
  ELSE <<Head(objs)>> \o CompletePrefix(Tail(objs), n - Len(Head(objs)) - 1)

(* The first n characters after the opening bracket end inside an object. *)
RECURSIVE TruncatedInside(_, _)
TruncatedInside(objs, n) ==
  IF objs = <<>> \/ n <= 0 THEN FALSE
  ELSE IF n < Len(Head(objs)) THEN TRUE
  ELSE TruncatedInside(Tail(objs), n - Len(Head(objs)) - 1)

(* C12: when the body ends while an object is still open, the result    *)
(* list is the values of the objects that were delivered whole, no      *)
(* error is set and the run is Completed.                               *)
C12_TruncatedStream ==
  [][\A r \in Runs : \A objs \in ObjectLists(SessionObjects) :
       (/\ runs[r].pc = "read" /\ runs'[r].pc = "done" /\ error' = NULL
        /\ runs[r].text = Serialize(objs)
        /\ TruncatedInside(objs, runs[r].pos - 1))
         => /\ results' = ParsedObjects(CompletePrefix(objs, runs[r].pos - 1))
            /\ Status' = "Completed"]_vars

(* The text with every brace and every escape sequence inside quoted *)
(* text replaced by ordinary letters.                                 *)
RECURSIVE PlainFrom(_, _, _)
PlainFrom(s, i, inStr) ==
  IF i > Len(s) THEN <<>>
  ELSE LET c == s[i] IN
    IF inStr THEN
      IF c = BSlash THEN <<"a", "a">> \o PlainFrom(s, i + 2, TRUE)
      ELSE IF c = Quote THEN <<c>> \o PlainFrom(s, i + 1, FALSE)
      ELSE IF c \in {LBrace, RBrace} THEN <<"a">> \o PlainFrom(s, i + 1, TRUE)
      ELSE <<c>> \o PlainFrom(s, i + 1, TRUE)
    ELSE <<c>> \o PlainFrom(s, i + 1, c = Quote)

Plain(s) == PlainFrom(s, 1, FALSE)

HasQuotedSpecial(objs) == \E k \in 1..Len(objs) : Plain(objs[k]) # objs[k]

(* C13: when the whole of a body with braces, escaped quotes or         *)
(* backslash escapes inside quoted text has been delivered, the depth   *)
(* is 0, the quoted-text flag is off and the result list holds the      *)
(* value of every object of the body in order.                          *)
C13_QuotedTextNeutral ==
  \A r \in Runs : \A objs \in ObjectLists(ExtractObjects) :
    (/\ runs[r].pc = "read"
     /\ runs[r].pos = Len(runs[r].text)
     /\ runs[r].text = Serialize(objs)
     /\ HasQuotedSpecial(objs))
      => /\ runs[r].loc.depth = 0
         /\ ~runs[r].loc.inString
         /\ results = ParsedObjects(objs)

Determined(rs) == { k \in 1..Len(rs) : rs[k] \in {PassResult, FailResult} }

IsSaveFailStep == saves' # saves /\ saves' \subseteq saves /\ autoSaveStatus' = "error"

(* A step in which autoSaveResults is called. *)
IsSaveAttemptStep == savesThisRun' = savesThisRun + 1

(* C15: the step in which a save fails and SaveState becomes error, and *)
(* the step that attempted the save, change neither the result list nor *)
(* the session status nor the verification error message.               *)
C15_SaveFailureFrame ==
  [][(IsSaveFailStep \/ IsSaveAttemptStep) =>
       /\ results' = results
       /\ Status' = Status
       /\ error' = error
       /\ isStreaming' = isStreaming]_vars

C15_Witness ==
  /\ autoSaveStatus = "error"
  /\ saves = {}
  /\ savesThisRun = 1
  /\ Status = "Completed"
  /\ Len(results) = 2

(* C16: once the save of the current run has failed, no step but the    *)
(* click on Re-verify unsets the auto-save flag or calls                *)
(* autoSaveResults; the click unsets the flag, and when the new run has *)
(* ended with a non-empty list the effect calls autoSaveResults, once.  *)
C16_FailedSaveTerminal ==
  /\ [][(autoSaveStatus = "error" /\ savesThisRun > 0 /\ ~IsManualRestartStep) =>
          /\ autoSaveTriggeredRef /\ autoSaveTriggeredRef'
          /\ savesThisRun' = savesThisRun]_vars
  /\ [][IsManualRestartStep => (~autoSaveTriggeredRef' /\ savesThisRun' = 0)]_vars
  /\ []((nRuns > 1 /\ ~isStreaming /\ Len(results) > 0 /\ savesThisRun = 0)
          => ENABLED AutoSaveEffect)
  /\ [](savesThisRun <= 1)

C16_Witness ==
  /\ nRuns = 2
  /\ autoCalls = 1
  /\ saves = {}
  /\ autoSaveStatus = "error"
  /\ autoSaveTriggeredRef
  /\ savesThisRun = 1
  /\ Status = "Completed"
  /\ Len(results) > 0

(* The messages of a call that was rejected or whose response had no body. *)
TransportMessages == {"Failed to fetch", "No response body", "network error"}

(* C17: the session error message of a run whose verification call got *)
(* a response with a non-success status is the plain-text body of that *)
(* response.                                                           *)
C17_ErrorBodyIsMessage ==
  (error # NULL /\ error \notin TransportMessages)
    => \E response \in NotOkResponses : error = response.body

(* C18: while the loop reads, the result list holds the value of every  *)
(* object whose closing brace has been delivered, whatever follows it;  *)
(* with the PASS object and then the FAIL object delivered the counts   *)
(* are 1 and 1 and the rate is 50.                                      *)
C18_AppendedOnClosingBrace ==
  \A r \in Runs : \A objs \in ObjectLists(SessionObjects) :
    (runs[r].pc = "read" /\ runs[r].text = Serialize(objs))
      => /\ results = ParsedObjects(CompletePrefix(objs, runs[r].pos - 1))
         /\ CompletePrefix(objs, runs[r].pos - 1) = <<PassResult, FailResult>>
              => /\ passCount(results) = 1
                 /\ failCount(results) = 1
                 /\ agreementRate(results) = 50

RECURSIVE LargestObject(_)
LargestObject(objs) ==
  IF objs = <<>> THEN 0
  ELSE LET rest == LargestObject(Tail(objs))
       IN IF Len(Head(objs)) >= rest THEN Len(Head(objs)) ELSE rest

(* The buffer is what was delivered after a closing brace. *)
BufferFollowsBrace(delivered, buffer) ==
  /\ Len(buffer) < Len(delivered)
  /\ SubSeq(delivered, Len(delivered) - Len(buffer) + 1, Len(delivered)) = buffer
  /\ delivered[Len(delivered) - Len(buffer)] = RBrace

(* C20: between two reads of a run over a valid body the buffer is no   *)
(* longer than the largest object of the body and the two separators    *)
(* around it; and after a chunk in which an object was appended the     *)
(* buffer holds only what was delivered after a closing brace.          *)
C20_BufferBounded ==
  /\ [](\A r \in Runs : \A objs \in ObjectLists(ExtractObjects) :
          (runs[r].pc = "read" /\ runs[r].text = Serialize(objs))
            => Len(runs[r].loc.buffer) <= LargestObject(objs) + 2)
  /\ [][\A r \in Runs :
          (runs[r].pc = "read" /\ runs'[r].pc = "read" /\ Len(results') > Len(results))
            => BufferFollowsBrace(
                 Decode(<<>>, SubSeq(runs'[r].text, 1, runs'[r].pos)).text,
                 runs'[r].loc.buffer)]_vars

(* C21: once autoSaveResults has been called for a Completed run, the   *)
(* list it was given is the whole result list of the run, and every     *)
(* element of it was appended by that run.                              *)
C21_SavedListComplete ==
  (savesThisRun > 0 /\ Status = "Completed")
    => /\ savedPayload = results
       /\ \A k \in 1..Len(resultRun) : resultRun[k] = nRuns

Occurrences(seq, v) == Cardinality({ k \in 1..Len(seq) : seq[k] = v })

(* C23: while the loop reads a valid body, every element of the result  *)
(* list is the value of a top-level object of the body, and no value is *)
(* in the list more often than the body holds it.                       *)
C23_NoSpuriousResult ==
  \A r \in Runs : \A objs \in ObjectLists(ExtractObjects) :
    (runs[r].pc = "read" /\ runs[r].text = Serialize(objs))
      => \A k \in 1..Len(results) :
           /\ Occurrences(ParsedObjects(objs), results[k]) > 0
           /\ Occurrences(results, results[k])
                <= Occurrences(ParsedObjects(objs), results[k])

(* C24: SaveState is idle for as long as the session is Streaming, and  *)
(* the settling of a save request issued for an earlier run leaves      *)
(* SaveState as it is.                                                  *)
C24_StaleSaveIgnored ==
  /\ [](isStreaming => autoSaveStatus = "idle")
  /\ [][\A req \in saves :
          (req \notin saves' /\ req # nRuns) => autoSaveStatus' = autoSaveStatus]_vars

C27_StrayBraceHarmless ==
  \A r \in Runs : \A objs \in ObjectLists(SessionObjects) : \A k \in 0..Len(objs) :
    (runs[r].pc = "read" /\ objs # <<>> /\ runs[r].text = StrayBody(objs, k))
      => /\ runs[r].loc.depth >= 0
         /\ runs[r].pos = Len(runs[r].text) => results = ParsedObjects(objs)

(* C28: the disagreement alert is shown exactly when the session is not *)
(* Streaming and the list holds a PASS and a FAIL result, which is      *)
(* exactly when the agreement rate is defined and below 100.            *)
C28_AlertIffPassAndFail ==
  LET mixed == /\ \E k \in 1..Len(results) : results[k] = PassResult
               /\ \E k \in 1..Len(results) : results[k] = FailResult
  IN /\ AlertShown <=> (~isStreaming /\ mixed)
     /\ AlertShown <=> /\ ~isStreaming
                        /\ agreementRate(results) # NoRate
                        /\ agreementRate(results) < 100

(* C29: pass count plus fail count never exceeds the number of results; *)
(* a defined agreement rate is an integer from 50 to 100 and is 100     *)
(* exactly when all determined verdicts are the same.                   *)
C29_RateRange ==
  LET rate == agreementRate(results)
      unanimous == \A j, k \in Determined(results) : results[j] = results[k]
  IN /\ passCount(results) + failCount(results) <= Len(results)
     /\ rate # NoRate => /\ rate \in 50..100
                          /\ rate = 100 <=> unanimous

(* C25: the save status is success only if the result on display is one *)
(* whose save request succeeded.                                        *)
C25_SavedIsDisplayed ==
  lab.saveStatus = "success" => (lab.result # NoResult /\ lab.result \in lab.saved)

(* C30: a call of runModel with an empty (trimmed) query, context or     *)
(* required workflow or custom prompt sends no request and changes only  *)
(* the four validation messages; a call that passes clears result and    *)
(* error, sets saveStatus to idle and sends the request.                 *)
C30_ValidationGate ==
  [][lab'.calls = lab.calls + 1 =>
       LET required == IF lab.activePreset = CUSTOM_PROMPT_ID
                         THEN lab.customPrompt ELSE lab.workflowDesc
           empty == \E t \in {lab.queryText, lab.contextText, required} : trim(t) = <<>>
           messages == {"queryError", "contextError", "customPromptError",
                        "workflowError", "calls"}
       IN IF empty
            THEN /\ \A f \in (DOMAIN lab) \ messages : lab'[f] = lab[f]
                 /\ \E f \in messages \ {"calls"} : lab'[f] # ""
            ELSE /\ lab'.result = NoResult
                 /\ lab'.error = NULL
                 /\ lab'.saveStatus = "idle"
                 /\ lab'.loading
                 /\ lab'.sent = lab.sent + 1
                 /\ lab'.inference = lab'.sent
                 /\ \A f \in messages \ {"calls"} : lab'[f] = ""]_vars

C30_Witness ==
  /\ lab.calls = 3
  /\ lab.sent = 2
  /\ lab.loading
  /\ lab.result = NoResult
  /\ lab.saved = {1}
  /\ lab.saveOf = NoResult
  /\ lab.saveStatus = "idle"

====
